---- MODULE Spec2Model ----
(***************************************************************************)
(* Ayurvedic Cosmetics API: the product endpoints of main.py over the      *)
(* document store adapter of database.py.                                  *)
(*                                                                         *)
(* Representation.  Text that the code searches or orders (title, tags,    *)
(* ingredients, ids, search terms) is a sequence of one-character strings; *)
(* text the code only stores (description, image_url, category) is a       *)
(* string.  Optional[T] is a sequence of length 0 (None) or 1.  price is   *)
(* in hundredths and rating in tenths, so that 29.99 is 2999 and 4.5 is    *)
(* 45.  A store document is a function from field names to values, with    *)
(* _id an ObjectId (its 24 hexadecimal digits); the collection is the      *)
(* sequence of its documents in insertion order.                           *)
(*                                                                         *)
(* Store failures.  A list request may find the store failing on its       *)
(* primary query alone or on every call, and the store rejects a filter    *)
(* whose pattern does not compile.  Every other call of a connected store  *)
(* succeeds.  With no connection (db is None) the adapter raises.          *)
(***************************************************************************)
EXTENDS Integers, Sequences, FiniteSets, TLC

VARIABLES
    db,        \* database.py:31  TRUE iff the connection was made at start
    product,   \* the store's "product" collection, in natural order
    nextOid,   \* the next ObjectId the store generates
    clock,     \* datetime.utcnow()
    resp,      \* the outcome of the last completed request
    prev,      \* ghost: the status of the request before it, if a seed
    fresh,     \* ghost: id -> body, for ids created and not updated since
    seeders    \* the seed requests in flight (concurrent specification)

vars == <<db, product, nextOid, clock, resp, prev, fresh, seeders>>

----------------------------------------------------------------------------
(* Bounds of the model.                                                    *)

MaxOid == 2
MaxClock == 1
MaxSeeders == 2

----------------------------------------------------------------------------
(* Optional values and sequences.                                          *)

None == <<>>
Some(x) == <<x>>

Range(s) == {s[i] : i \in 1..Len(s)}

Take(s, n) == SubSeq(s, 1, IF n < Len(s) THEN n ELSE Len(s))

\* dict.pop(key) / a dict without one key
Without(d, key) == [k \in DOMAIN d \ {key} |-> d[k]]

\* dict.update / {**a, **b}: b's entries win
Update(a, b) == b @@ a

----------------------------------------------------------------------------
(* Characters: code points, case folding, string order.                    *)

\* the printable ASCII characters from code point 32 on; the three that a
\* string cannot hold are written by name
Chars ==
    <<" ","!","QUOTATION MARK","#","$","%","&","'","(",")","*","+",",","-",".","/","0","1","2","3","4","5","6","7","8","9",":",";","<","=",">","?","@","A","B","C","D","E","F","G","H","I","J","K","L","M","N","O","P","Q","R","S","T","U","V","W","X","Y","Z","[","REVERSE SOLIDUS","]","^","_","GRAVE ACCENT","a","b","c","d","e","f","g","h","i","j","k","l","m","n","o","p","q","r","s","t","u","v","w","x","y","z","{","|","}","~">>

\* ord: the code point of each character
OrdOf == [c \in {Chars[i] : i \in 1..Len(Chars)} |->
            31 + CHOOSE i \in 1..Len(Chars) : Chars[i] = c]

Ord(c) == OrdOf[c]

\* str.lower on each character: A-Z to a-z
FoldOf == [c \in DOMAIN OrdOf |->
             IF OrdOf[c] \in 65..90 THEN Chars[OrdOf[c] + 32 - 31] ELSE c]

\* one character under the i option
Fold(c) == FoldOf[c]

Lower(s) == [i \in 1..Len(s) |-> Fold(s[i])]

\* s < t for str: code point order, a proper prefix first
RECURSIVE StrLess(_, _)
StrLess(s, t) ==
    IF t = <<>> THEN FALSE
    ELSE IF s = <<>> THEN TRUE
    ELSE IF Head(s) = Head(t) THEN StrLess(Tail(s), Tail(t))
    ELSE Ord(Head(s)) < Ord(Head(t))

\* term occurs in text, ignoring case
Contains(text, term) ==
    \E i \in 1..(Len(text) - Len(term) + 1) :
        \A j \in 1..Len(term) : Fold(text[i + j - 1]) = Fold(term[j])

----------------------------------------------------------------------------
(* The store's $regex with $options i.  The pattern language of the model: *)
(* a literal character, the dot (any one character) and parenthesised      *)
(* groups; a pattern whose parentheses do not balance does not compile and *)
(* the query fails.                                                        *)

RECURSIVE ParenDepth(_, _)
ParenDepth(p, depth) ==
    IF depth < 0 THEN depth
    ELSE IF p = <<>> THEN depth
    ELSE ParenDepth(Tail(p), CASE Head(p) = "(" -> depth + 1
                               [] Head(p) = ")" -> depth - 1
                               [] OTHER -> depth)

RegexCompiles(p) == ParenDepth(p, 0) = 0

RegexAtoms(p) == SelectSeq(p, LAMBDA c : c \notin {"(", ")"})

RegexSearch(p, text) ==
    LET atoms == RegexAtoms(p) IN
    \E i \in 1..(Len(text) - Len(atoms) + 1) :
        \A j \in 1..Len(atoms) :
            atoms[j] = "." \/ Fold(text[i + j - 1]) = Fold(atoms[j])

----------------------------------------------------------------------------
(* bson.ObjectId: twelve bytes, written as 24 hexadecimal digits.          *)

HexDigits == <<"0","1","2","3","4","5","6","7","8","9","a","b","c","d","e","f">>

\* the n-th identifier the store generates
GenOid(n) ==
    [i \in 1..24 |->
        IF i < 23 THEN "0"
        ELSE IF i = 23 THEN HexDigits[((n \div 16) % 16) + 1]
        ELSE HexDigits[(n % 16) + 1]]

\* ObjectId.is_valid(s)
IsValidOid(s) ==
    /\ Len(s) = 24
    /\ \A i \in 1..Len(s) : Fold(s[i]) \in Range(HexDigits)

\* ObjectId(s), for a valid s; raises InvalidId otherwise
ObjectId(s) == Lower(s)

\* str(oid)
OidStr(oid) == oid

----------------------------------------------------------------------------
(* main.py: the request and response models.                               *)

ProductInFields ==
    {"title", "description", "price", "category", "ingredients", "image_url",
     "gallery", "in_stock", "stock_count", "rating", "reviews_count",
     "popularity", "tags"}

ProductFields == ProductInFields \cup {"id"}

\* ProductIn(...): the fields given, the others at their defaults
ProductIn(title, description, price, category, ingredients, image_url, popularity, tags) ==
    [title |-> title, description |-> description, price |-> price,
     category |-> category, ingredients |-> ingredients,
     image_url |-> image_url, gallery |-> <<>>, in_stock |-> TRUE,
     stock_count |-> 10, rating |-> 45, reviews_count |-> 0,
     popularity |-> popularity, tags |-> tags]

_ProductMock(id, title, description, price, category, ingredients, image_url, popularity, tags) ==
    Update(ProductIn(title, Some(description), price, category, ingredients,
                     Some(image_url), popularity, tags),
           [id |-> id])

\* model.model_dump(): the dict of the model's declared fields
model_dump(m) == [k \in DOMAIN m |-> m[k]]

\* Product(**d): the declared fields of d; any other key is ignored
Product(d) == [k \in ProductFields |-> d[k]]

_mock_products ==
    <<
        _ProductMock(<<"1">>,
            <<"K","u","m","k","u","m","a","d","i"," ","R","a","d","i","a","n","c","e"," ","S","e","r","u","m">>,
            "Ancient Ayurvedic blend with saffron and sandalwood for glowing skin.",
            2999, "Face Care",
            << <<"S","a","f","f","r","o","n">>, <<"S","a","n","d","a","l","w","o","o","d">>, <<"M","a","n","j","i","s","t","h","a">> >>,
            "https://images.unsplash.com/photo-1611930022073-b7a4ba5fcccd?q=80&w=1200&auto=format&fit=crop",
            95,
            << <<"g","l","o","w">>, <<"s","e","r","u","m">>, <<"s","a","f","f","r","o","n">> >>),
        _ProductMock(<<"2">>,
            <<"N","e","e","m"," ","&"," ","T","e","a"," ","T","r","e","e"," ","C","l","e","a","n","s","e","r">>,
            "Purifying face wash to combat acne and excess oil.",
            1450, "Face Care",
            << <<"N","e","e","m">>, <<"T","e","a"," ","T","r","e","e">>, <<"T","u","l","s","i">> >>,
            "https://images.unsplash.com/photo-1598440947619-2c35fc9aa908?q=80&w=1200&auto=format&fit=crop",
            80,
            << <<"c","l","e","a","n","s","e","r">>, <<"a","c","n","e">> >>),
        _ProductMock(<<"3">>,
            <<"B","h","r","i","n","g","r","a","j"," ","H","a","i","r"," ","O","i","l">>,
            "Strengthens hair roots and reduces hair fall.",
            1999, "Hair Care",
            << <<"B","h","r","i","n","g","r","a","j">>, <<"A","m","l","a">>, <<"C","o","c","o","n","u","t">> >>,
            "https://images.unsplash.com/photo-1522335789203-aabd1fc54bc9?q=80&w=1200&auto=format&fit=crop",
            88,
            << <<"h","a","i","r">>, <<"o","i","l">> >>),
        _ProductMock(<<"4">>,
            <<"U","b","t","a","n"," ","B","o","d","y"," ","S","c","r","u","b">>,
            "Traditional turmeric and chickpea flour exfoliant.",
            1200, "Body Care",
            << <<"T","u","r","m","e","r","i","c">>, <<"C","h","i","c","k","p","e","a">>, <<"R","o","s","e">> >>,
            "https://images.unsplash.com/photo-1575052814086-f385e2e2ad1b?q=80&w=1200&auto=format&fit=crop",
            70,
            << <<"u","b","t","a","n">>, <<"s","c","r","u","b">> >>)
    >>

----------------------------------------------------------------------------
(* The store's query language, as far as list_products uses it.  A         *)
(* condition on a field is a value to equal, [value |-> v], or a dict of    *)
(* operators, [ops |-> ...], over $regex (with $options i), $elemMatch,     *)
(* $gte and $lte.  A filter maps field names to conditions, and $or to a   *)
(* list of filters.                                                        *)

Eq(v) == [kind |-> "value", value |-> v]
Ops(o) == [kind |-> "ops", ops |-> o]

RECURSIVE CondHolds(_, _)
CondHolds(v, c) ==
    IF c.kind = "value" THEN v = c.value
    ELSE \A o \in DOMAIN c.ops :
            CASE o = "$regex" -> RegexSearch(c.ops[o], v)
              [] o = "$elemMatch" ->
                    \E i \in 1..Len(v) : CondHolds(v[i], Ops(c.ops[o]))
              [] o = "$gte" -> v >= c.ops[o]
              [] o = "$lte" -> v <= c.ops[o]

RECURSIVE Matches(_, _)
Matches(d, filter_dict) ==
    \A k \in DOMAIN filter_dict :
        IF k = "$or"
        THEN \E i \in 1..Len(filter_dict[k]) : Matches(d, filter_dict[k][i])
        ELSE k \in DOMAIN d /\ CondHolds(d[k], filter_dict[k])

RECURSIVE CondCompiles(_)
CondCompiles(c) ==
    IF c.kind = "value" THEN TRUE
    ELSE \A o \in DOMAIN c.ops :
            CASE o = "$regex" -> RegexCompiles(c.ops[o])
              [] o = "$elemMatch" -> CondCompiles(Ops(c.ops[o]))
              [] OTHER -> TRUE

\* the store accepts the filter: every pattern in it compiles
RECURSIVE FilterCompiles(_)
FilterCompiles(filter_dict) ==
    \A k \in DOMAIN filter_dict :
        IF k = "$or"
        THEN \A i \in 1..Len(filter_dict[k]) : FilterCompiles(filter_dict[k][i])
        ELSE CondCompiles(filter_dict[k])

\* collection.find(filter_dict) over the documents in natural order
Find(col, filter_dict) == SelectSeq(col, LAMBDA d : Matches(d, filter_dict))

\* the natural orders the store may return the documents in
NaturalOrders(col) ==
    {[i \in 1..Len(col) |-> col[p[i]]] : p \in Permutations(1..Len(col))}

\* a < b for the values of sort field key
KeyLess(a, b, key) == IF key = "title" THEN StrLess(a, b) ELSE a < b

\* x goes before y in the order asked for
Before(x, y, key, reverse) ==
    IF reverse THEN KeyLess(y[key], x[key], key) ELSE KeyLess(x[key], y[key], key)

\* the sorted list with x put in: after every element it does not go before
RECURSIVE Insort(_, _, _, _)
Insort(s, x, key, reverse) ==
    IF s = <<>> THEN <<x>>
    ELSE IF Before(x, Head(s), key, reverse) THEN <<x>> \o s
    ELSE <<Head(s)>> \o Insort(Tail(s), x, key, reverse)

\* sorted(docs, key=..., reverse=...) and cursor.sort(key, dir): stable
RECURSIVE SortBy(_, _, _)
SortBy(docs, key, reverse) ==
    IF docs = <<>> THEN <<>>
    ELSE Insort(SortBy(SubSeq(docs, 1, Len(docs) - 1), key, reverse),
                docs[Len(docs)], key, reverse)

\* d["id"] = str(d.pop("_id"))
WithId(d) == Update(Without(d, "_id"), [id |-> OidStr(d["_id"])])

----------------------------------------------------------------------------
(* database.py: the document store adapter.  Each operator is the function *)
(* applied to the collection col; those that write return the collection   *)
(* after the call with what the function returns.                          *)

\* dict.setdefault(k, v)
SetDefault(d, k, v) == IF k \in DOMAIN d THEN d ELSE Update(d, (k :> v))

\* create_document reading the clock once for each stamp
create_document_two_clocks(col, oid, data, now) ==
    LET stamped == SetDefault(SetDefault(data, "created_at", now),
                              "updated_at", now + 1)
        doc     == Update(stamped, ("_id" :> GenOid(oid)))
    IN  [col |-> Append(col, doc), ret |-> OidStr(doc["_id"])]

create_document(col, oid, data, now) ==
    LET stamped == SetDefault(SetDefault(data, "created_at", now),
                              "updated_at", now)
        doc     == Update(stamped, ("_id" :> GenOid(oid)))
    IN  [col |-> Append(col, doc), ret |-> OidStr(doc["_id"])]

get_documents(col, filter_dict, limit) ==
    LET docs == Take(Find(col, filter_dict), limit)
    IN  [i \in 1..Len(docs) |-> WithId(docs[i])]

\* Some(record) or None
get_document_by_id(col, doc_id) ==
    IF ~IsValidOid(doc_id) THEN None
    ELSE LET hits == Find(col, ("_id" :> Eq(ObjectId(doc_id))))
         IN  IF hits = <<>> THEN None ELSE Some(WithId(hits[1]))

\* the place of the first document with this _id, or 0
FirstHit(col, oid) ==
    LET hits == {i \in 1..Len(col) : col[i]["_id"] = oid}
    IN  IF hits = {} THEN 0 ELSE CHOOSE i \in hits : \A j \in hits : i <= j

\* update_document stamping both times, as create_document does
update_document_restamps(col, doc_id, data, now) ==
    LET set == Update(data, [created_at |-> now, updated_at |-> now])
        hit == FirstHit(col, ObjectId(doc_id))
        new == [i \in 1..Len(col) |->
                   IF i = hit THEN Update(col[i], set) ELSE col[i]]
    IN  [col |-> new, ret |-> new # col]

\* for a valid doc_id
update_document(col, doc_id, data, now) ==
    LET set == Update(data, [updated_at |-> now])
        hit == FirstHit(col, ObjectId(doc_id))
        new == [i \in 1..Len(col) |->
                   IF i = hit THEN Update(col[i], set) ELSE col[i]]
    IN  [col |-> new, ret |-> new # col]

\* for a valid doc_id
delete_document(col, doc_id) ==
    LET hit == FirstHit(col, ObjectId(doc_id))
        new == IF hit = 0 THEN col
               ELSE SubSeq(col, 1, hit - 1) \o SubSeq(col, hit + 1, Len(col))
    IN  [col |-> new, ret |-> Len(new) < Len(col)]

----------------------------------------------------------------------------
(* main.py: list_products.                                                 *)

EmptyDict == [k \in {} |-> None]

\* `if s:` for an Optional[str]
Truthy(opt) == opt # None /\ Len(opt[1]) > 0

\* `if category:`; category is a string the code only compares
TruthyName(opt) == opt # None /\ opt[1] # ""

RegexI(p) == ("$regex" :> p)

build_filter(q, category, ingredient, min_price, max_price) ==
    LET or_part ==
            IF Truthy(q)
            THEN ("$or" :> << ("title" :> Ops(RegexI(q[1]))),
                             ("tags" :> Ops(("$elemMatch" :> RegexI(q[1])))) >>)
            ELSE EmptyDict
        category_part ==
            IF TruthyName(category) THEN ("category" :> Eq(category[1]))
            ELSE EmptyDict
        ingredient_part ==
            IF Truthy(ingredient)
            THEN ("ingredients" :> Ops(("$elemMatch" :> RegexI(ingredient[1]))))
            ELSE EmptyDict
        price_filter ==
            (IF min_price # None THEN ("$gte" :> min_price[1]) ELSE EmptyDict)
            @@ (IF max_price # None THEN ("$lte" :> max_price[1]) ELSE EmptyDict)
        price_part ==
            IF min_price # None \/ max_price # None
            THEN ("price" :> Ops(price_filter))
            ELSE EmptyDict
    IN  or_part @@ category_part @@ ingredient_part @@ price_part

sort_map ==
    [price_asc |-> <<"price", 1>>,
     price_desc |-> <<"price", -1>>,
     name_asc |-> <<"title", 1>>,
     name_desc |-> <<"title", -1>>,
     popularity_desc |-> <<"popularity", -1>>]

\* sort_map.get with an ascending default
sort_spec_ascending_default(sort) ==
    IF sort \in DOMAIN sort_map THEN sort_map[sort] ELSE <<"popularity", 1>>

\* sort_map.get(sort, ("popularity", -1))
sort_spec(sort) ==
    IF sort \in DOMAIN sort_map THEN sort_map[sort] ELSE <<"popularity", -1>>

\* the sort parameter as the handler receives it: its default when absent
sort_param(sort) == IF sort = None THEN "popularity_desc" ELSE sort[1]

\* the primary query without .limit(limit)
primary_query_unlimited(nat, filter_dict, sort_key, sort_dir, limit) ==
    LET cursor == SortBy(Find(nat, filter_dict), sort_key, sort_dir = -1)
    IN  [i \in 1..Len(cursor) |-> Product(WithId(cursor[i]))]

\* db["product"].find(filter_dict).sort(sort_key, sort_dir).limit(limit),
\* each document mapped to a Product
primary_query(nat, filter_dict, sort_key, sort_dir, limit) ==
    LET cursor == Take(SortBy(Find(nat, filter_dict), sort_key, sort_dir = -1),
                       limit)
    IN  [i \in 1..Len(cursor) |-> Product(WithId(cursor[i]))]

\* the except branch: get_documents, then sorted(...)
fallback_query(nat, filter_dict, sort_key, sort_dir, limit) ==
    LET docs == get_documents(nat, filter_dict, limit)
        docs_sorted == SortBy(docs, sort_key, sort_dir = -1)
    IN  [i \in 1..Len(docs_sorted) |-> Product(docs_sorted[i])]

\* the response of list_products; a store call raises when the store fails
\* on it or rejects the filter
list_products(connected, nat, req, primary_fails, fallback_fails) ==
    LET filter_dict == build_filter(req.q, req.category, req.ingredient,
                                    req.min_price, req.max_price)
        sort_key == sort_spec(sort_param(req.sort))[1]
        sort_dir == sort_spec(sort_param(req.sort))[2]
        rejected == ~FilterCompiles(filter_dict)
    IN  IF ~connected
        THEN [op |-> "list", status |-> 200, path |-> "mock", req |-> req,
              items |-> [i \in 1..Len(_mock_products) |->
                            Product(_mock_products[i])]]
        ELSE IF ~(primary_fails \/ rejected)
        THEN [op |-> "list", status |-> 200, path |-> "primary", req |-> req,
              items |-> primary_query(nat, filter_dict, sort_key, sort_dir,
                                      req.limit)]
        ELSE IF ~(fallback_fails \/ rejected)
        THEN [op |-> "list", status |-> 200, path |-> "fallback", req |-> req,
              items |-> fallback_query(nat, filter_dict, sort_key, sort_dir,
                                       req.limit)]
        ELSE [op |-> "list", status |-> 500, path |-> "error", req |-> req,
              items |-> <<>>]

----------------------------------------------------------------------------
(* The requests the clients send.                                          *)

LipBalm ==
    ProductIn(<<"L","i","p"," ","B","a","l","m">>, None, 1450, "Face Care",
              << <<"G","h","e","e">> >>, None, 80, << <<"b","a","l","m">> >>)

AmlaOil ==
    ProductIn(<<"A","m","l","a"," ","O","i","l">>, Some("Cold pressed."), 900,
              "Hair Care", << <<"A","m","l","a">> >>, None, 0,
              << <<"o","i","l">>, <<"h","a","i","r">> >>)

Bodies == {LipBalm, AmlaOil}

\* not 24 hexadecimal digits
MalformedId == <<"n","o","t","-","a","n","-","i","d">>

\* the ids of path parameters: the ids the store generates for the products
\* created (each absent before its product is created and after it is
\* deleted), and a malformed one
RequestIds == {OidStr(GenOid(n)) : n \in 1..MaxOid} \cup {MalformedId}

QTerms ==
    {None, Some(<<"o","i","l">>), Some(<<"S",".","r">>), Some(<<"(">>)}

CategoryTerms == {None, Some("Face Care")}

IngredientTerms == {None, Some(<<"n","e","e","m">>)}

MinPrices == {None, Some(1450)}

MaxPrices == {None, Some(1999)}

SortTerms ==
    {None, Some("price_asc"), Some("price_desc"), Some("name_asc"),
     Some("name_desc"), Some("popularity_desc"), Some("newest")}

Limits == {1, 2, 100}

\* which store calls of a list request fail for reasons of the store's own:
\* none, the primary query alone, or every call
StoreFailures == {"none", "primary", "all"}

ListRequests ==
    [q : QTerms, category : CategoryTerms, ingredient : IngredientTerms,
     min_price : MinPrices, max_price : MaxPrices, sort : SortTerms,
     limit : Limits]

----------------------------------------------------------------------------
(* The state machine: one action per endpoint.                             *)

NoResponse == [op |-> "none", status |-> 0]

Idle == [pc |-> "idle", next |-> 1, status |-> "", count |-> 0]

Init ==
    /\ db \in BOOLEAN
    /\ product = <<>>
    /\ nextOid = 1
    /\ clock = 0
    /\ resp = NoResponse
    /\ prev = "none"
    /\ fresh = EmptyDict
    /\ seeders = [s \in 1..MaxSeeders |-> Idle]

\* what every completed request leaves behind
Respond(r) ==
    /\ resp' = r
    /\ prev' = IF resp.op = "seed" THEN resp.status ELSE "none"

\* time passes
Tick ==
    /\ clock < MaxClock
    /\ clock' = clock + 1
    /\ UNCHANGED <<db, product, nextOid, resp, prev, fresh, seeders>>

\* GET /api/products
ListProducts(req, failure) ==
    /\ \E nat \in NaturalOrders(product) :
          Respond(list_products(db, nat, req, failure # "none",
                                failure = "all"))
    /\ UNCHANGED <<db, product, nextOid, clock, fresh, seeders>>

\* GET /api/products/{product_id}
GetProduct(product_id) ==
    /\ IF ~db
       THEN Respond([op |-> "get", status |-> 500, id |-> product_id])
       ELSE LET doc == get_document_by_id(product, product_id)
            IN  IF doc = None
                THEN Respond([op |-> "get", status |-> 404, id |-> product_id])
                ELSE Respond([op |-> "get", status |-> 200, id |-> product_id,
                              body |-> Product(doc[1])])
    /\ UNCHANGED <<db, product, nextOid, clock, fresh, seeders>>

\* POST /api/products
CreateProduct(body) ==
    IF ~db
    THEN /\ Respond([op |-> "create", status |-> 500])
         /\ UNCHANGED <<db, product, nextOid, clock, fresh, seeders>>
    ELSE /\ nextOid <= MaxOid
         /\ LET r == create_document(product, nextOid, model_dump(body), clock)
            IN  /\ product' = r.col
                /\ fresh' = Update(fresh, (r.ret :> body))
                /\ Respond([op |-> "create", status |-> 200, id |-> r.ret])
         /\ nextOid' = nextOid + 1
         /\ UNCHANGED <<db, clock, seeders>>

\* PUT /api/products/{product_id}
UpdateProduct(product_id, body) ==
    IF ~db \/ ~IsValidOid(product_id)
    THEN /\ Respond([op |-> "update", status |-> 500, id |-> product_id])
         /\ UNCHANGED <<db, product, nextOid, clock, fresh, seeders>>
    ELSE LET r == update_document(product, product_id, model_dump(body), clock)
         IN  /\ product' = r.col
             /\ fresh' = Without(fresh, OidStr(ObjectId(product_id)))
             /\ Respond([op |-> "update", status |-> IF r.ret THEN 200 ELSE 404,
                         id |-> product_id])
             /\ UNCHANGED <<db, nextOid, clock, seeders>>

\* DELETE /api/products/{product_id}
DeleteProduct(product_id) ==
    IF ~db \/ ~IsValidOid(product_id)
    THEN /\ Respond([op |-> "delete", status |-> 500, id |-> product_id])
         /\ UNCHANGED <<db, product, nextOid, clock, fresh, seeders>>
    ELSE LET r == delete_document(product, product_id)
         IN  /\ product' = r.col
             /\ fresh' = Without(fresh, OidStr(ObjectId(product_id)))
             /\ Respond([op |-> "delete", status |-> IF r.ret THEN 200 ELSE 404,
                         id |-> product_id])
             /\ UNCHANGED <<db, nextOid, clock, seeders>>

\* the body of the seed loop for one item of the mock catalog
seed_item(col, oid, item, now) ==
    create_document(col, oid, Without(model_dump(item), "id"), now)

\* the seed loop from item i on: the collection after it
RECURSIVE seed_loop(_, _, _, _)
seed_loop(col, oid, i, now) ==
    IF i > Len(_mock_products) THEN col
    ELSE seed_loop(seed_item(col, oid, _mock_products[i], now).col, oid + 1,
                   i + 1, now)

\* the ids the seed loop gives the mock catalog, with the bodies it stores
seeded_bodies(oid) ==
    [id \in {OidStr(GenOid(oid + i - 1)) : i \in 1..Len(_mock_products)} |->
        LET i == CHOOSE j \in 1..Len(_mock_products) :
                     OidStr(GenOid(oid + j - 1)) = id
        IN  Without(model_dump(_mock_products[i]), "id")]

\* the test against the size of the catalog instead of zero
seed_exists_past_catalog(existing) == existing > Len(_mock_products)

\* `if existing > 0`: the collection already holds products
seed_exists(existing) == existing > 0

\* POST /api/seed, run from start to end with no other request in between
SeedProducts ==
    /\ IF ~db
       THEN /\ Respond([op |-> "seed", status |-> "db_unavailable", count |-> 0])
            /\ UNCHANGED <<product, nextOid, fresh>>
       ELSE LET existing == Len(product)
            IN  IF seed_exists(existing)
                THEN /\ Respond([op |-> "seed", status |-> "exists",
                                 count |-> existing])
                     /\ UNCHANGED <<product, nextOid, fresh>>
                ELSE /\ product' = seed_loop(product, nextOid, 1, clock)
                     /\ nextOid' = nextOid + Len(_mock_products)
                     /\ fresh' = Update(fresh, seeded_bodies(nextOid))
                     /\ Respond([op |-> "seed", status |-> "seeded",
                                 count |-> Len(product')])
    /\ UNCHANGED <<db, clock, seeders>>

Next ==
    \/ Tick
    \/ \E id \in RequestIds : GetProduct(id)
    \/ \E body \in Bodies : CreateProduct(body)
    \/ \E id \in RequestIds, body \in Bodies : UpdateProduct(id, body)
    \/ \E id \in RequestIds : DeleteProduct(id)

Spec == Init /\ [][Next]_vars

----------------------------------------------------------------------------
(* Seeding, one request after the other, over the collections that        *)
(* creates, updates and deletes leave behind.                              *)

NextSeed ==
    \/ Tick
    \/ \E body \in Bodies : CreateProduct(body)
    \/ \E id \in RequestIds, body \in Bodies : UpdateProduct(id, body)
    \/ \E id \in RequestIds : DeleteProduct(id)
    \/ SeedProducts

SpecSeed == Init /\ [][NextSeed]_vars

----------------------------------------------------------------------------
(* The catalog queries.  A list request reads and writes nothing, so the   *)
(* answers to two of them in a row are the answers to each alone: the next *)
(* request after a list request is one that writes.                        *)

NextList ==
    \/ \E body \in Bodies : CreateProduct(body)
    \/ SeedProducts
    \/ \E req \in ListRequests, failure \in StoreFailures :
          resp.op # "list" /\ ListProducts(req, failure)

SpecList == Init /\ [][NextList]_vars

----------------------------------------------------------------------------
(* Concurrent requests.  The handlers run in a thread pool; a seed request *)
(* is a sequence of store calls (count_documents, one insert_one for each  *)
(* item of the mock catalog, count_documents), and the calls of other      *)
(* requests may come between any two of them.                              *)

\* seed_products up to its first count_documents
SeedBegin(s) ==
    /\ seeders[s].pc = "idle"
    /\ IF ~db
       THEN seeders' = [seeders EXCEPT ![s] =
                           [@ EXCEPT !.pc = "done", !.status = "db_unavailable"]]
       ELSE LET existing == Len(product)
            IN  IF seed_exists(existing)
                THEN seeders' = [seeders EXCEPT ![s] =
                                    [@ EXCEPT !.pc = "done", !.status = "exists",
                                              !.count = existing]]
                ELSE seeders' = [seeders EXCEPT ![s] = [@ EXCEPT !.pc = "insert"]]
    /\ UNCHANGED <<db, product, nextOid, clock, resp, prev, fresh>>

\* one turn of the seed loop
SeedInsert(s) ==
    /\ seeders[s].pc = "insert"
    /\ LET i == seeders[s].next
           r == seed_item(product, nextOid, _mock_products[i], clock)
       IN  /\ product' = r.col
           /\ nextOid' = nextOid + 1
           /\ fresh' = Update(fresh, (r.ret :> Without(model_dump(_mock_products[i]), "id")))
           /\ seeders' = [seeders EXCEPT ![s] =
                  [@ EXCEPT !.next = i + 1,
                            !.pc = IF i = Len(_mock_products) THEN "count"
                                   ELSE "insert"]]
    /\ UNCHANGED <<db, clock, resp, prev>>

\* the last count_documents and the return
SeedEnd(s) ==
    /\ seeders[s].pc = "count"
    /\ seeders' = [seeders EXCEPT ![s] =
           [@ EXCEPT !.pc = "done", !.status = "seeded", !.count = Len(product)]]
    /\ UNCHANGED <<db, product, nextOid, clock, resp, prev, fresh>>

NextConc ==
    \/ \E s \in 1..MaxSeeders : SeedBegin(s)
    \/ \E s \in 1..MaxSeeders : SeedInsert(s)
    \/ \E s \in 1..MaxSeeders : SeedEnd(s)
    \/ \E body \in Bodies : CreateProduct(body)
    \/ \E id \in RequestIds : DeleteProduct(id)

SpecConc == Init /\ [][NextConc]_vars

----------------------------------------------------------------------------
(* What the claims speak of.                                               *)

\* the last request was a list request answered from the store
Listed == resp.op = "list" /\ resp.status = 200 /\ resp.path \in {"primary", "fallback"}

\* p passes every filter the request supplies, each read as the
\* specification words it: equality, bounds, substring without regard to case
SatisfiesFilters(p, req) ==
    /\ TruthyName(req.category) => p.category = req.category[1]
    /\ req.min_price # None => req.min_price[1] <= p.price
    /\ req.max_price # None => p.price <= req.max_price[1]
    /\ Truthy(req.ingredient) =>
          \E i \in 1..Len(p.ingredients) :
              Contains(p.ingredients[i], req.ingredient[1])
    /\ Truthy(req.q) =>
          \/ Contains(p.title, req.q[1])
          \/ \E i \in 1..Len(p.tags) : Contains(p.tags[i], req.q[1])

\* a search term with none of the pattern language's special characters
Literal(opt) == opt = None \/ \A i \in 1..Len(opt[1]) : opt[1][i] \notin {".", "(", ")"}

\* the stored document without what the store and the adapter add
BodyOf(d) == [k \in DOMAIN d \ {"_id", "id", "created_at", "updated_at"} |-> d[k]]

\* the collection holds the mock catalog and nothing else
HoldsMockCatalog ==
    /\ Len(product) = Len(_mock_products)
    /\ \A i \in 1..Len(product) : BodyOf(product[i]) = BodyOf(_mock_products[i])

----------------------------------------------------------------------------
(* C1.  Every product a list request returns from the store (primary or    *)
(* fallback path) satisfies all the filters the request supplies: category *)
(* equal, price within the bounds, some ingredient containing the          *)
(* ingredient term, and title or some tag containing q, case ignored.      *)
C1_ReturnedSatisfyFilters ==
    Listed => \A i \in 1..Len(resp.items) :
                  SatisfiesFilters(resp.items[i], resp.req)

\* C1, for terms without special characters: what does hold of the code
C1_LiteralTermsSatisfyFilters ==
    (Listed /\ Literal(resp.req.q) /\ Literal(resp.req.ingredient)) =>
        \A i \in 1..Len(resp.items) : SatisfiesFilters(resp.items[i], resp.req)

(* C2.  In every mode (primary, fallback, degraded) a list request with    *)
(* limit in 1..100 returns at most limit products, hence at most 100.      *)
C2_CountWithinLimitEveryMode ==
    (resp.op = "list" /\ resp.status = 200) =>
        Len(resp.items) <= resp.req.limit /\ Len(resp.items) <= 100

(* C2 as amended.  With the store connected (primary or fallback path) a   *)
(* list request returns at most limit products; in degraded mode it        *)
(* returns the whole mock catalog whatever the limit; at most 100 always.  *)
C2_CountWithinLimitConnected ==
    (resp.op = "list" /\ resp.status = 200) =>
        /\ resp.path \in {"primary", "fallback"} =>
              Len(resp.items) <= resp.req.limit
        /\ resp.path = "mock" => Len(resp.items) = Len(_mock_products)
        /\ Len(resp.items) <= 100

\* the limit cut the result short: more products match than were returned
C2_LimitCuts ==
    /\ Listed
    /\ Len(resp.items) = resp.req.limit
    /\ Len(Find(product, build_filter(resp.req.q, resp.req.category,
                                      resp.req.ingredient, resp.req.min_price,
                                      resp.req.max_price))) > resp.req.limit

(* C3.  With the store connected, on both paths, the list is in the order  *)
(* asked for: prices do not decrease for price_asc; popularity does not    *)
(* increase for popularity_desc, an absent sort or an unrecognized one.    *)
C3_ListIsSorted ==
    Listed =>
        \A i \in 1..(Len(resp.items) - 1) :
            /\ resp.req.sort = Some("price_asc") =>
                  resp.items[i].price <= resp.items[i + 1].price
            /\ (\/ resp.req.sort = None
                \/ resp.req.sort[1] \notin {"price_asc", "price_desc",
                                            "name_asc", "name_desc"}) =>
                  resp.items[i].popularity >= resp.items[i + 1].popularity

\* the fallback path put an unrecognized sort's result in popularity order
C3_FallbackSorted ==
    /\ resp.op = "list" /\ resp.path = "fallback"
    /\ resp.req.sort = Some("newest")
    /\ Len(resp.items) = Len(_mock_products)
    /\ resp.items[1].popularity > resp.items[2].popularity
    /\ resp.items[2].popularity > resp.items[3].popularity

(* C4.  With the store holding the four sample products, the request       *)
(* category=Face Care, sort=price_asc, limit=1 returns exactly the Neem &  *)
(* Tea Tree Cleanser (14.50), on the primary and on the fallback path and  *)
(* in every natural order.                                                 *)
C4_CheapestFaceCare ==
    (/\ Listed
     /\ HoldsMockCatalog
     /\ resp.req = [q |-> None, category |-> Some("Face Care"),
                    ingredient |-> None, min_price |-> None,
                    max_price |-> None, sort |-> Some("price_asc"),
                    limit |-> 1])
    => /\ Len(resp.items) = 1
       /\ resp.items[1].title = _mock_products[2].title
       /\ resp.items[1].price = 1450

(* C5.  With the store connected, GET, PUT and DELETE of an id that is     *)
(* malformed or absent from the collection each end with 404 and leave the *)
(* collection unchanged.                                                   *)
C5_MissingIdIsNotFound ==
    [][\A id \in RequestIds :
          (/\ db
           /\ ~IsValidOid(id) \/ get_document_by_id(product, id) = None
           /\ \/ GetProduct(id)
              \/ DeleteProduct(id)
              \/ \E body \in Bodies : UpdateProduct(id, body))
          => (resp'.status = 404 /\ product' = product)]_vars

(* C6.  A list request never ends in an error, whichever store calls fail: *)
(* it always returns a list.                                               *)
C6_ListNeverFails == resp.op = "list" => resp.status = 200

(* C7.  With the store connected, a seed request that follows a seed       *)
(* request leaves the collection as it was and answers exists with the     *)
(* size of the collection; a seed request on an empty collection answers   *)
(* seeded with count 4.                                                    *)
C7_SeedIdempotent ==
    [][(db /\ SeedProducts) =>
          /\ resp.op = "seed" =>
                /\ product' = product
                /\ resp'.status = "exists"
                /\ resp'.count = Len(product)
          /\ product = <<>> =>
                /\ resp'.status = "seeded"
                /\ resp'.count = 4
                /\ Len(product') = 4]_vars

\* a second seed request in succession found the seeded catalog
C7_SeededThenExists ==
    /\ prev = "seeded"
    /\ resp.op = "seed" /\ resp.status = "exists" /\ resp.count = 4
    /\ HoldsMockCatalog

(* C8.  A product created and neither updated nor deleted since is what    *)
(* get_document_by_id returns for the id create returned: every field of   *)
(* the body as supplied, that id, and created_at and updated_at both set   *)
(* and equal.                                                              *)
C8_CreateGetRoundTrip ==
    \A id \in DOMAIN fresh :
        LET got == get_document_by_id(product, id) IN
        /\ got # None
        /\ \A k \in DOMAIN fresh[id] :
              k \in DOMAIN got[1] /\ got[1][k] = fresh[id][k]
        /\ got[1].id = id
        /\ {"created_at", "updated_at"} \subseteq DOMAIN got[1]
        /\ got[1].created_at = got[1].updated_at

\* a created product was fetched by the id create returned, after others
\* were created and time had passed
C8_FetchedFresh ==
    /\ resp.op = "get" /\ resp.status = 200
    /\ resp.id \in DOMAIN fresh
    /\ resp.body = Update(fresh[resp.id], [id |-> resp.id])
    /\ Len(product) > 1
    /\ clock > 0

\* every stored product: created_at <= updated_at, and no id twice
C9_Stored ==
    /\ \A i \in 1..Len(product) : product[i].created_at <= product[i].updated_at
    /\ \A i, j \in 1..Len(product) : product[i]["_id"] = product[j]["_id"] => i = j

\* an update of an existing product keeps its place, id and created_at and
\* does not move updated_at back
C9_UpdateStep ==
    \A id \in RequestIds, body \in Bodies :
        (/\ db
         /\ resp'.op = "update" /\ resp'.id = id
         /\ IsValidOid(id)
         /\ UpdateProduct(id, body)) =>
            LET hit == FirstHit(product, ObjectId(id)) IN
            hit # 0 =>
                /\ Len(product') = Len(product)
                /\ product'[hit]["_id"] = product[hit]["_id"]
                /\ product'[hit].created_at = product[hit].created_at
                /\ product'[hit].updated_at >= product[hit].updated_at

(* C9.  After any create, update and delete requests, with a clock that    *)
(* does not go back, every stored product has created_at <= updated_at and *)
(* an id of its own; an update of an existing product, also one resending  *)
(* its current values, keeps id and created_at and sets updated_at to a    *)
(* value >= the one before.                                                *)
C9_Timestamps == []C9_Stored /\ [][C9_UpdateStep]_vars

\* a product created earlier was updated, and holds the values it was
\* created with
C9_UpdatedLater ==
    /\ resp.op = "update" /\ resp.status = 200
    /\ \E i \in 1..Len(product) :
          /\ OidStr(product[i]["_id"]) = resp.id
          /\ product[i].created_at < product[i].updated_at
          /\ BodyOf(product[i]) = LipBalm
          /\ product[i].updated_at = clock

\* the documents a seed request inserted
Seeded == SelectSeq(product, LAMBDA d : \E i \in 1..Len(_mock_products) :
                                           BodyOf(d) = BodyOf(_mock_products[i]))

(* C10.  Under every interleaving of concurrent seed requests and creates, *)
(* from an empty collection, the collection never holds more than one copy *)
(* (4 records) of the mock catalog and at most one seed request answers    *)
(* seeded.                                                                 *)
C10_OneCopyOfCatalog ==
    /\ Len(Seeded) <= Len(_mock_products)
    /\ Cardinality({s \in 1..MaxSeeders : seeders[s].status = "seeded"}) <= 1

====
